---------------------------- MODULE Spec2Model ----------------------------
(***************************************************************************)
(* Model of src/mappers/observation_mapper.py: map_temperature_to_fhir,    *)
(* the builder of a FHIR body-temperature Observation.                     *)
(*                                                                         *)
(* Each caller (thread) runs the function one statement at a time; the     *)
(* statements of different callers interleave freely.  The resource        *)
(* library (fhir.resources) is outside the repository: the model keeps     *)
(* what the code hands to it (attribute assignments on an object built by  *)
(* construct(), then json(indent=2)) and leaves open which numbers the     *)
(* library's encoder refuses (libRejects): any of the non-finite ones, and *)
(* possibly a finite one beyond the range it writes.                       *)
(***************************************************************************)
EXTENDS Integers, Sequences, FiniteSets, TLC

\* Longest patient identifier the model enumerates.
MaxIdLen == 1

\* Concurrent callers of the function.
Callers == {"c1", "c2"}

\* Characters identifiers are drawn from: a digit and a blank (a character
\* a trimming or escaping implementation would alter).
Chars == {"7", " "}

RECURSIVE Strings(_)
Strings(n) ==
    IF n = 0 THEN {""}
    ELSE Strings(n - 1) \cup {s \o ch : s \in Strings(n - 1), ch \in Chars}

\* patient_id: str  (any string, the empty one included: the code has no check)
PatientIds == Strings(MaxIdLen)

\* temp_value: float.  A double is a finite number, a NaN or an infinity;
\* finite values are kept in tenths of a degree (365 is 36.5).
Num(v) == [cls |-> "num", v |-> v]
NaN    == [cls |-> "nan", v |-> 0]
PosInf == [cls |-> "inf", v |-> 1]
NegInf == [cls |-> "inf", v |-> -1]
NonFinite == {NaN, PosInf, NegInf}
FiniteTemps == {Num(365), Num(-400), Num(1000000)}
Temps == FiniteTemps \cup NonFinite
IsFinite(t) == t.cls = "num"

\* The numbers a library may refuse to write: NaN and the infinities (no
\* JSON number denotes them) and a number of very large magnitude.
Refusable == NonFinite \cup {Num(1000000)}

\* What the variables hold while no call is in progress.
NoId   == ""
NoTemp == Num(0)
NoText == <<>>
Unallocated == [k \in {} |-> k]

VARIABLES
    pc,          \* per caller: the statement it is about to execute
    patient_id,  \* per caller: the argument patient_id of its call
    temp_value,  \* per caller: the argument temp_value of its call
    heap,        \* object store: the Observation objects under construction
    output,      \* per caller: the text its call returned (NoText: none)
    error,       \* per caller: the exception its call raised ("none": none)
    libRejects   \* the numbers the library's encoder refuses

vars == <<pc, patient_id, temp_value, heap, output, error, libRejects>>

(***************************************************************************)
(* The record and the literals the code assigns                            *)
(***************************************************************************)

\* line 9: Observation.construct() -- an object with no element set; the
\* library tags it with its resource type.
NewObservation == [resourceType |-> "Observation"]

\* `observation` is a local variable bound to the object line 9 constructs:
\* every call has an object of its own.
ObjShared(c) == "c1"
ObjOf(c) == c

\* observation.<name> = value
SetAttr(obs, name, value) == (name :> value) @@ obs

\* line 10
StatusFinal == "final"

\* lines 11-15: [CodeableConcept.construct(coding=[{...}])]
CategoryCoding ==
    << <<"system", "http://terminology.hl7.org/CodeSystem/observation-category">>,
       <<"code", "vital-signs">>,
       <<"display", "Vital Signs">> >>
Category == << [coding |-> <<CategoryCoding>>] >>

\* lines 18-22: CodeableConcept.construct(coding=[{...}])
LoincCoding ==
    << <<"system", "http://loinc.org">>,
       <<"code", "8310-5">>,
       <<"display", "Body temperature">> >>
Code == [coding |-> <<LoincCoding>>]

\* line 24: f"Patient/{patient_id}"
ReferenceNoSlash(id) == "Patient" \o id
Reference(id) == "Patient/" \o id

\* line 24: {"reference": f"Patient/{patient_id}"}
Subject(id) == << <<"reference", Reference(id)>> >>

\* line 26: "value": temp_value
QuantityValueRounded(t) ==
    IF IsFinite(t) THEN Num((t.v \div 10) * 10) ELSE t
QuantityValue(t) == t

\* line 27
UnitFahrenheit == "F"
Unit == "C"

\* lines 25-30
ValueQuantity(t) ==
    << <<"value", QuantityValue(t)>>,
       <<"unit", Unit>>,
       <<"system", "http://unitsofmeasure.org">>,
       <<"code", "Cel">> >>

\* line 24 as an assignment on the object
AssignSubjectIfGiven(obs, id) ==
    IF id = "" THEN obs ELSE SetAttr(obs, "subject", Subject(id))
AssignSubject(obs, id) == SetAttr(obs, "subject", Subject(id))

(***************************************************************************)
(* line 32: observation.json(indent=2)                                     *)
(***************************************************************************)

\* The order in which the library writes the elements of an Observation.
ElementsSequence ==
    <<"resourceType", "status", "category", "code", "subject", "valueQuantity">>

\* The text: the elements that are set, in the library's order, each with
\* its value (unset elements are left out).
Json(obs) ==
    LET keys == SelectSeq(ElementsSequence, LAMBDA k : k \in DOMAIN obs)
    IN  [i \in 1..Len(keys) |-> <<keys[i], obs[keys[i]]>>]

\* The library refuses the object: its quantity holds a number the encoder
\* does not write.
LibRefuses(obs) ==
    /\ "valueQuantity" \in DOMAIN obs
    /\ obs["valueQuantity"][1][2] \in libRejects

\* line 32: the outcome of `return observation.json(indent=2)`.  There is no
\* try/except around it: a failure leaves the function as the exception, and
\* nothing is returned.
SerializedBestEffort(obs) ==
    IF LibRefuses(obs)
    THEN [output |-> Json(obs), error |-> "SerializationError"]
    ELSE [output |-> Json(obs), error |-> "none"]
Serialized(obs) ==
    IF LibRefuses(obs)
    THEN [output |-> NoText, error |-> "SerializationError"]
    ELSE [output |-> Json(obs), error |-> "none"]

\* The function run from its first statement to its last with nothing in
\* between.
map_temperature_to_fhir(id, t) ==
    LET o1 == NewObservation
        o2 == SetAttr(o1, "status", StatusFinal)
        o3 == SetAttr(o2, "category", Category)
        o4 == SetAttr(o3, "code", Code)
        o5 == AssignSubject(o4, id)
        o6 == SetAttr(o5, "valueQuantity", ValueQuantity(t))
    IN  Serialized(o6)

(***************************************************************************)
(* The state machine                                                       *)
(***************************************************************************)

PCs == {"idle", "construct", "status", "category", "code", "subject",
        "valueQuantity", "serialize", "done", "failed"}

Init ==
    /\ pc = [c \in Callers |-> "idle"]
    /\ patient_id = [c \in Callers |-> NoId]
    /\ temp_value = [c \in Callers |-> NoTemp]
    /\ heap = [c \in Callers |-> Unallocated]
    /\ output = [c \in Callers |-> NoText]
    /\ error = [c \in Callers |-> "none"]
    /\ libRejects \in SUBSET Refusable

\* line 4: a caller enters the function with its arguments.
Call(c, id, t) ==
    /\ pc[c] = "idle"
    /\ pc' = [pc EXCEPT ![c] = "construct"]
    /\ patient_id' = [patient_id EXCEPT ![c] = id]
    /\ temp_value' = [temp_value EXCEPT ![c] = t]
    /\ UNCHANGED <<heap, output, error, libRejects>>

\* One assignment statement of caller c on its object.
Step(c, from, to, obs) ==
    /\ pc[c] = from
    /\ pc' = [pc EXCEPT ![c] = to]
    /\ heap' = [heap EXCEPT ![ObjOf(c)] = obs]
    /\ UNCHANGED <<patient_id, temp_value, output, error, libRejects>>

\* line 9
Construct(c) == Step(c, "construct", "status", NewObservation)

\* line 10
SetStatus(c) ==
    Step(c, "status", "category", SetAttr(heap[ObjOf(c)], "status", StatusFinal))

\* lines 11-15
SetCategory(c) ==
    Step(c, "category", "code", SetAttr(heap[ObjOf(c)], "category", Category))

\* lines 18-22
SetCode(c) ==
    Step(c, "code", "subject", SetAttr(heap[ObjOf(c)], "code", Code))

\* line 24
SetSubject(c) ==
    Step(c, "subject", "valueQuantity",
         AssignSubject(heap[ObjOf(c)], patient_id[c]))

\* lines 25-30
SetValueQuantity(c) ==
    Step(c, "valueQuantity", "serialize",
         SetAttr(heap[ObjOf(c)], "valueQuantity", ValueQuantity(temp_value[c])))

\* line 32: return observation.json(indent=2)
Serialize(c) ==
    /\ pc[c] = "serialize"
    /\ LET r == Serialized(heap[ObjOf(c)])
       IN  /\ output' = [output EXCEPT ![c] = r.output]
           /\ error' = [error EXCEPT ![c] = r.error]
           /\ pc' = [pc EXCEPT ![c] = IF r.error = "none" THEN "done" ELSE "failed"]
    /\ UNCHANGED <<patient_id, temp_value, heap, libRejects>>

\* The caller takes the result; the locals of the call are gone.
Return(c) ==
    /\ pc[c] \in {"done", "failed"}
    /\ pc' = [pc EXCEPT ![c] = "idle"]
    /\ patient_id' = [patient_id EXCEPT ![c] = NoId]
    /\ temp_value' = [temp_value EXCEPT ![c] = NoTemp]
    /\ heap' = [heap EXCEPT ![ObjOf(c)] = Unallocated]
    /\ output' = [output EXCEPT ![c] = NoText]
    /\ error' = [error EXCEPT ![c] = "none"]
    /\ UNCHANGED libRejects

Next ==
    \E c \in Callers :
        \/ \E id \in PatientIds, t \in Temps : Call(c, id, t)
        \/ Construct(c)
        \/ SetStatus(c)
        \/ SetCategory(c)
        \/ SetCode(c)
        \/ SetSubject(c)
        \/ SetValueQuantity(c)
        \/ Serialize(c)
        \/ Return(c)

Spec == Init /\ [][Next]_vars

(***************************************************************************)
(* Reading a returned text, and the words of the specification             *)
(***************************************************************************)

\* The text has an element named k / the value of that element.
Has(pairs, k) == \E i \in 1..Len(pairs) : pairs[i][1] = k
Get(pairs, k) == pairs[CHOOSE i \in 1..Len(pairs) : pairs[i][1] = k][2]

Finished(c) == pc[c] \in {"done", "failed"}

\* Valid input in the specification's sense: a non-empty identifier and a
\* finite number.
ValidInput(id, t) == id # "" /\ IsFinite(t)

\* The specification's phases.  No statement of the function validates its
\* arguments, so no position of the code is in a phase Validate.
Phase(c) ==
    CASE pc[c] = "idle" -> "Idle"
      [] pc[c] \in {"construct", "status", "category", "code", "subject",
                    "valueQuantity"} -> "Assemble"
      [] pc[c] = "serialize" -> "Serialize"
      [] pc[c] = "done" -> "Done"
      [] OTHER -> "Failed"

RequiredFields == {"status", "category", "code", "subject", "valueQuantity"}

(***************************************************************************)
(* Claims                                                                  *)
(***************************************************************************)

\* C1: every call with patient_id = "" ends in an InvalidInput error and
\* returns no text.  (The code has no such check: the call runs to line 32.)
C1_EmptyIdRejected ==
    \A c \in Callers :
        (Finished(c) /\ patient_id[c] = "")
            => (error[c] = "InvalidInput" /\ output[c] = NoText)

\* C2: every call with a non-empty patient_id and a temperature that is NaN
\* or an infinity ends in an InvalidInput error and returns no text.
C2_NonFiniteRejected ==
    \A c \in Callers :
        (Finished(c) /\ patient_id[c] # "" /\ ~IsFinite(temp_value[c]))
            => (error[c] = "InvalidInput" /\ output[c] = NoText)

\* C3: for a non-empty patient_id and a finite temperature, subject.reference
\* of the returned record is exactly "Patient/" followed by patient_id.
C3_SubjectReference ==
    \A c \in Callers :
        (pc[c] = "done" /\ ValidInput(patient_id[c], temp_value[c]))
            => /\ Has(output[c], "subject")
               /\ Has(Get(output[c], "subject"), "reference")
               /\ Get(Get(output[c], "subject"), "reference")
                      = "Patient/" \o patient_id[c]

\* A call with the blank identifier (one a trimming builder would alter)
\* has returned.
C3_Witness ==
    \E c \in Callers :
        pc[c] = "done" /\ patient_id[c] = " " /\ IsFinite(temp_value[c])

\* C4: for a non-empty patient_id and a finite temperature,
\* valueQuantity.value of the returned record is temp_value itself: not
\* rounded, not clamped, not range-checked.
C4_ValuePassThrough ==
    \A c \in Callers :
        (pc[c] = "done" /\ ValidInput(patient_id[c], temp_value[c]))
            => /\ Has(output[c], "valueQuantity")
               /\ Has(Get(output[c], "valueQuantity"), "value")
               /\ Get(Get(output[c], "valueQuantity"), "value") = temp_value[c]

\* Calls with a negative, a very large and a fractional temperature have
\* returned.
C4_Witness ==
    /\ \E c \in Callers :
           pc[c] = "done" /\ patient_id[c] # ""
               /\ temp_value[c] \in {Num(-400), Num(1000000)}
    /\ \E c \in Callers :
           pc[c] = "done" /\ patient_id[c] # "" /\ temp_value[c] = Num(365)

\* C5: for valid inputs, everything in the returned record except
\* subject.reference and valueQuantity.value is the fixed literal text.
C5_FixedLiterals ==
    \A c \in Callers :
        (pc[c] = "done" /\ ValidInput(patient_id[c], temp_value[c]))
            => \E ref \in {"Patient/" \o id : id \in PatientIds}, v \in Temps :
                 output[c] =
                   << <<"resourceType", "Observation">>,
                      <<"status", "final">>,
                      <<"category",
                        << [coding |->
                             << << <<"system",
                                     "http://terminology.hl7.org/CodeSystem/observation-category">>,
                                   <<"code", "vital-signs">>,
                                   <<"display", "Vital Signs">> >> >>] >> >>,
                      <<"code",
                        [coding |->
                           << << <<"system", "http://loinc.org">>,
                                 <<"code", "8310-5">>,
                                 <<"display", "Body temperature">> >> >>] >>,
                      <<"subject", << <<"reference", ref>> >> >>,
                      <<"valueQuantity",
                        << <<"value", v>>,
                           <<"unit", "C">>,
                           <<"system", "http://unitsofmeasure.org">>,
                           <<"code", "Cel">> >> >> >>

\* Two calls with different valid inputs have both returned.
C5_Witness ==
    \E c, d \in Callers :
        /\ pc[c] = "done" /\ pc[d] = "done"
        /\ ValidInput(patient_id[c], temp_value[c])
        /\ ValidInput(patient_id[d], temp_value[d])
        /\ patient_id[c] # patient_id[d]
        /\ temp_value[c] # temp_value[d]

\* C6: two calls with the same valid inputs return the same text, whatever
\* other calls ran before or between them.
C6_Deterministic ==
    \A c, d \in Callers :
        (/\ Finished(c) /\ Finished(d)
         /\ ValidInput(patient_id[c], temp_value[c])
         /\ patient_id[c] = patient_id[d]
         /\ temp_value[c] = temp_value[d])
            => (pc[c] = pc[d] /\ output[c] = output[d])

\* Two different callers hold the results of calls with the same valid
\* inputs.
C6_Witness ==
    \E c, d \in Callers :
        /\ c # d
        /\ pc[c] = "done" /\ pc[d] = "done"
        /\ ValidInput(patient_id[c], temp_value[c])
        /\ patient_id[c] = patient_id[d]
        /\ temp_value[c] = temp_value[d]

\* C7: a call ends either with a text in which status, category, code,
\* subject and valueQuantity are all present, or with an error and no text.
C7_AllOrNothing ==
    \A c \in Callers :
        /\ pc[c] = "done"
               => (error[c] = "none"
                   /\ \A f \in RequiredFields : Has(output[c], f))
        /\ pc[c] = "failed" => (error[c] # "none" /\ output[c] = NoText)
        /\ pc[c] # "done" => output[c] = NoText

\* One call has returned a text and another has failed.
C7_Witness ==
    \E c, d \in Callers : pc[c] = "done" /\ pc[d] = "failed"

\* C8: when serialization fails, the call ends at once in a
\* SerializationError (not InvalidInput) with no text; the failed call is
\* not retried (its next step is the caller taking the error), and no other
\* call is touched by the failure.
C8_SerializationFailure ==
    [][\A c \in Callers :
          /\ (pc[c] = "serialize" /\ pc'[c] # "serialize"
                  /\ LibRefuses(heap[ObjOf(c)]))
                => /\ pc'[c] = "failed"
                   /\ error'[c] = "SerializationError"
                   /\ error'[c] # "InvalidInput"
                   /\ output'[c] = NoText
                   /\ \A d \in Callers \ {c} :
                          /\ pc'[d] = pc[d]
                          /\ output'[d] = output[d]
                          /\ error'[d] = error[d]
                          /\ heap'[ObjOf(d)] = heap[ObjOf(d)]
          /\ pc[c] = "failed" => pc'[c] \in {"failed", "idle"}]_vars

\* A call with valid inputs has failed in serialization while another
\* caller holds a text.
C8_Witness ==
    \E c, d \in Callers :
        /\ pc[c] = "failed" /\ error[c] = "SerializationError"
        /\ ValidInput(patient_id[c], temp_value[c])
        /\ pc[d] = "done" /\ output[d] # NoText

\* C9: under any interleaving of the callers' statements, the result of a
\* call (its text or its error) is the result of the function run alone on
\* the same arguments.
C9_Reentrant ==
    \A c \in Callers :
        Finished(c)
            => [output |-> output[c], error |-> error[c]]
                   = map_temperature_to_fhir(patient_id[c], temp_value[c])

\* Two callers hold results of calls with different identifiers and
\* different temperatures.
C9_Witness ==
    \E c, d \in Callers :
        /\ c # d
        /\ Finished(c) /\ Finished(d)
        /\ patient_id[c] # patient_id[d]
        /\ temp_value[c] # temp_value[d]

\* C10: assembly never starts before validation of the inputs has passed,
\* and serialization never starts before all five fields are set.  (The
\* code assembles whatever it is given: its first statement is line 9.)
C10_PhaseDiscipline ==
    \A c \in Callers :
        /\ Phase(c) \in {"Assemble", "Serialize", "Done"}
               => ValidInput(patient_id[c], temp_value[c])
        /\ Phase(c) \in {"Serialize", "Done"}
               => RequiredFields \subseteq DOMAIN heap[ObjOf(c)]

=============================================================================
